---------------------------- MODULE Spec2Model ----------------------------
(***************************************************************************)
(* X32 automixer: the brain-side decision engine (src/src/brain_core.py)   *)
(* and the edge-side metering / telemetry pipeline (src/src/edge_node.py). *)
(*                                                                         *)
(* Floats are represented exactly as scaled integers:                      *)
(*   a decibel value d   is the integer d * DbUnit      (tenths of a dB),  *)
(*   a fader value  f    is the integer f * FaderUnit   (1/16000 steps).   *)
(* db_to_fader is exact on every tenth of a dB; fader_to_db is exact on    *)
(* every fader value that is a multiple of 1/400 (FaderGrid), which is     *)
(* where the model applies it.                                             *)
(*                                                                         *)
(* One list of variables serves several specifications, each moving its    *)
(* own part of the state and leaving the rest as constructed:              *)
(*   Spec, SpecRepeat  the brain on well-formed telemetry                  *)
(*   SpecMalformed     the brain on malformed telemetry, with its shadow   *)
(*   SpecCurve         the fader curve on drawn inputs                     *)
(*   SpecEdge          audio callback against the telemetry loop           *)
(*   SpecRelay         the command relay on_mqtt_message                   *)
(*   SpecTimer         telemetry_loop against the clock                    *)
(*   SpecKeep          xremote_loop against the clock                      *)
(*   SpecLife(Fair)    start(), stop(), the two threads, process exit      *)
(***************************************************************************)
EXTENDS Integers, Sequences, FiniteSets, TLC

VARIABLES
    \* ---- brain_core.py : BrainCore
    phase,            \* "new" before BrainCore.__init__ ran, "running" after
    config,           \* self.config: what load_config returned
    channels,         \* self.channels: channel id -> ChannelStrip
    chanOrder,        \* insertion order of self.channels (dict order)
    TARGET_BUS_IDX,   \* module global TARGET_BUS_IDX
    speech_active,    \* self.speech_active
    now,              \* time.time()
    commands,         \* messages published on "x32/commands" in the last step
    last,             \* what the last step was and what it was given
    \* ---- fader curve, applied to drawn inputs
    curveOp, curveArg, curveRes,
    \* ---- edge_node.py : X32EdgeNode
    levels,           \* self.levels: the list object the attribute refers to
    blocks,           \* number of audio blocks delivered so far
    cbResult,         \* what the last audio_callback call returned / raised
    lastBlock,        \* the block the last audio_callback call was given
    tlPc,             \* telemetry_loop: position in the loop body
    tlList,           \* telemetry_loop: the list object enumerate() iterates
    tlIdx,            \* telemetry_loop: how many entries the comprehension built
    telemetry_data,   \* telemetry_loop: the dict under construction
    published,        \* the last message published on "x32/telemetry"
    \* ---- brain_core.py : histories kept beside the brain
    shadow,           \* the brain as it would be had no malformed message arrived
    prev,             \* the telemetry pass before the last step: message, commands
    \* ---- edge_node.py : on_mqtt_message
    relayMsg,         \* the payload of the last message delivered on "x32/commands"
    oscSent,          \* every osc_client.send_message call so far: <<address, args>>
    relayLog,         \* what the last on_mqtt_message call logged
    \* ---- edge_node.py : telemetry_loop against the clock
    tClock,           \* time.time(), in units of 50 ms
    tPc,              \* telemetry_loop: position in the loop
    current_time,     \* telemetry_loop: the local current_time
    last_telemetry_time,  \* self.last_telemetry_time
    tOutcome,         \* what the last publish attempt did
    \* ---- edge_node.py : xremote_loop against the clock
    kClock,           \* time.time(), in seconds
    kPc,              \* xremote_loop: position in the loop
    kAttempts,        \* the time of each /xremote send attempt so far
    kOutcome,         \* what the last /xremote send did
    \* ---- edge_node.py : start / stop
    running,          \* self.running
    mainPc,           \* the main thread: position in start()
    pa,               \* self.p, the audio subsystem handle
    mqtt,             \* the bus client: connection and network loop
    stream,           \* self.stream
    telThread,        \* the telemetry thread
    keepThread,       \* the keepalive thread
    joined            \* the worker threads have been joined

brainVars == <<phase, config, channels, chanOrder, TARGET_BUS_IDX,
               speech_active, now, commands, last>>
curveVars == <<curveOp, curveArg, curveRes>>
edgeVars  == <<levels, blocks, cbResult, lastBlock, tlPc, tlList, tlIdx,
               telemetry_data, published>>
histVars  == <<shadow, prev>>
relayVars == <<relayMsg, oscSent, relayLog>>
timerVars == <<tClock, tPc, current_time, last_telemetry_time, tOutcome>>
keepVars  == <<kClock, kPc, kAttempts, kOutcome>>
lifeRest  == <<mainPc, pa, mqtt, stream, telThread, keepThread, joined>>
lifeVars  == <<running, lifeRest>>
auxVars   == <<histVars, relayVars, timerVars, keepVars, lifeVars>>
vars == <<brainVars, curveVars, edgeVars, auxVars>>

---------------------------------------------------------------------------
\* Number representation
DbUnit    == 10
FaderUnit == 16000

\* Bounds of the model
MaxTime   == 2      \* the clock runs 0..MaxTime
MaxBlocks == 3      \* audio blocks delivered by the driver

---------------------------------------------------------------------------
\* brain_core.py:24-32
fader_to_db(fader_val) ==
    IF fader_val >= FaderUnit \div 2 THEN
        (fader_val * 40 * DbUnit) \div FaderUnit - 30 * DbUnit
    ELSE IF fader_val >= FaderUnit \div 4 THEN
        (fader_val * 80 * DbUnit) \div FaderUnit - 50 * DbUnit
    ELSE IF fader_val > FaderUnit \div 16 THEN
        (fader_val * 160 * DbUnit) \div FaderUnit - 70 * DbUnit
    ELSE
        -90 * DbUnit

\* variant of db_to_fader without the top segment: every value from -30 dB up
\* goes through (db + 50) / 80
db_to_fader_spec(db_val) ==
    IF db_val >= -30 * DbUnit THEN
        ((db_val + 50 * DbUnit) * FaderUnit) \div (80 * DbUnit)
    ELSE IF db_val >= -60 * DbUnit THEN
        ((db_val + 70 * DbUnit) * FaderUnit) \div (160 * DbUnit)
    ELSE
        0

\* brain_core.py:34-42
db_to_fader(db_val) ==
    IF db_val >= -10 * DbUnit THEN
        ((db_val + 30 * DbUnit) * FaderUnit) \div (40 * DbUnit)
    ELSE IF db_val >= -30 * DbUnit THEN
        ((db_val + 50 * DbUnit) * FaderUnit) \div (80 * DbUnit)
    ELSE IF db_val >= -60 * DbUnit THEN
        ((db_val + 70 * DbUnit) * FaderUnit) \div (160 * DbUnit)
    ELSE
        0


---------------------------------------------------------------------------
\* Inputs the model draws from

\* channel ids that appear in configurations and in telemetry; UnknownIds are in
\* no configuration
ChannelIds == {1, 2}
UnknownIds == {3}
MsgIds     == ChannelIds \cup UnknownIds

\* loudness readings (tenths of a dBFS) a telemetry message can carry
Levels        == {-350, -349, -195, -160}
UnknownLevels == {-160}

\* telemetry payloads: a JSON object, channel id -> level, over any subset of ids
Messages ==
    UNION { { m \in [S -> Levels \cup UnknownLevels] :
                /\ \A c \in S \cap ChannelIds : m[c] \in Levels
                /\ \A u \in S \cap UnknownIds : m[u] \in UnknownLevels }
            : S \in SUBSET MsgIds }

\* what the configuration file can hold.  kind "missing": open() fails;
\* "unparseable": json.load fails; "nonobject": the document is no JSON object;
\* "data": a JSON object.  An entry of "channels" whose value is no object has
\* isdict = FALSE.
Entry(id, isdict, hasgroup, group) ==
    [id |-> id, isdict |-> isdict, hasgroup |-> hasgroup, group |-> group]

ConfigData(chs, hasbus, bus) ==
    [kind |-> "data", channels |-> chs, has_target_bus |-> hasbus, target_bus |-> bus]

NoData(kind) ==
    [kind |-> kind, channels |-> <<>>, has_target_bus |-> FALSE, target_bus |-> <<>>]

ConfigFiles ==
    { ConfigData(<<Entry(1, TRUE, TRUE, "speech"), Entry(2, TRUE, TRUE, "drums")>>,
                 TRUE, <<11>>),
      ConfigData(<<Entry(1, TRUE, TRUE, "speech"), Entry(2, TRUE, TRUE, "speech")>>,
                 FALSE, <<>>),
      ConfigData(<<Entry(1, TRUE, TRUE, "vocals"), Entry(2, TRUE, TRUE, "band")>>,
                 TRUE, <<11, 12>>),
      ConfigData(<<Entry(1, TRUE, FALSE, ""), Entry(2, TRUE, TRUE, "fx")>>,
                 TRUE, <<13, 14>>),
      ConfigData(<<Entry(1, TRUE, TRUE, "speech"), Entry(2, FALSE, FALSE, "")>>,
                 TRUE, <<11>>),
      NoData("missing"), NoData("unparseable"), NoData("nonobject") }

---------------------------------------------------------------------------
\* Helpers
Max(a, b) == IF a >= b THEN a ELSE b
Abs(x)    == IF x < 0 THEN -x ELSE x

RECURSIVE SortedSeq(_)
SortedSeq(S) ==
    IF S = {} THEN <<>>
    ELSE LET lo == CHOOSE x \in S : \A y \in S : x <= y
         IN <<lo>> \o SortedSeq(S \ {lo})

\* dict.items() of a telemetry payload, in key order
Items(levelsMsg) ==
    LET ks == SortedSeq(DOMAIN levelsMsg)
    IN [i \in 1..Len(ks) |-> <<ks[i], levelsMsg[ks[i]]>>]

---------------------------------------------------------------------------
\* brain_core.py:44-56  ChannelStrip.__init__
ChannelStrip(channel_id, config_data) ==
    [id                  |-> channel_id,
     group               |-> IF config_data.hasgroup THEN config_data.group ELSE "ignore",
     current_dbfs        |-> -90 * DbUnit,
     current_fader_level |-> 0,
     target_fader_level  |-> (3 * FaderUnit) \div 4,
     is_overridden       |-> FALSE,
     override_end_time   |-> 0]

\* brain_core.py:81-82  the loop that fills self.channels; it stops at the first
\* entry whose construction raises (config_data.get on a non-object)
RECURSIVE init_channels(_, _, _)
init_channels(chans, order, entries) ==
    IF entries = <<>> THEN [channels |-> chans, order |-> order, raised |-> FALSE]
    ELSE LET e == Head(entries) IN
         IF ~e.isdict THEN [channels |-> chans, order |-> order, raised |-> TRUE]
         ELSE init_channels(
                [i \in DOMAIN chans \cup {e.id} |->
                    IF i = e.id THEN ChannelStrip(e.id, e) ELSE chans[i]],
                IF e.id \in DOMAIN chans THEN order ELSE Append(order, e.id),
                Tail(entries))

EmptyChannels == [i \in {} |-> 0]

\* variant of fresh_table: a table that starts with a default speech strip
failed_table_default ==
    [channels |-> [i \in {1} |-> ChannelStrip(1, [hasgroup |-> TRUE, group |-> "speech"])],
     order |-> <<1>>]

\* brain_core.py:61  self.channels = {} : the table load_config starts from
fresh_table == [channels |-> EmptyChannels, order |-> <<>>]

\* brain_core.py:74-90  load_config: the table, the bus list and the return value
load_config(file) ==
    IF file.kind # "data" THEN
        [channels |-> fresh_table.channels, order |-> fresh_table.order,
         bus |-> <<11, 12>>,
         config |-> [loaded |-> FALSE, cause |-> file.kind]]
    ELSE LET r == init_channels(fresh_table.channels, fresh_table.order,
                                file.channels) IN
         IF r.raised THEN
            [channels |-> r.channels, order |-> r.order, bus |-> <<11, 12>>,
             config |-> [loaded |-> FALSE, cause |-> "entry"]]
         ELSE
            [channels |-> r.channels, order |-> r.order,
             bus |-> IF file.has_target_bus THEN file.target_bus ELSE <<11, 12>>,
             config |-> [loaded |-> TRUE, cause |-> "none"]]

---------------------------------------------------------------------------
\* variant of is_configured: no membership test
is_configured_any(chans, ch_id) == TRUE

\* brain_core.py:113  "if ch_id in self.channels"
is_configured(chans, ch_id) == ch_id \in DOMAIN chans

\* variant of opens_gate: threshold -30.0
opens_gate_minus30(db_val) == db_val > -30 * DbUnit

\* brain_core.py:117  the speech gate test of one reading
opens_gate(db_val) == db_val > -35 * DbUnit

\* a level that is no number (a JSON string, null, list or object): the value
\* stands for any of them, and no arithmetic is ever applied to it
NonNumeric == 9999

\* brain_core.py:117,155  "db_val > -35.0" and "-18.0 - ch.current_dbfs" raise
\* TypeError on a value that is no number
is_number(v) == v # NonNumeric

\* brain_core.py:110-118  the update loop of process_telemetry over the payload's
\* items.  self.channels[ch_id] on an id that is no key raises KeyError; the
\* level is stored (line 114) before the gate test of line 117 can raise.
RECURSIVE update_levels(_, _, _)
update_levels(chans, items, max_speech_db) ==
    IF items = <<>> THEN
        [channels |-> chans, max_speech_db |-> max_speech_db, raised |-> FALSE]
    ELSE LET ch_id  == Head(items)[1]
             db_val == Head(items)[2]
         IN IF ~is_configured(chans, ch_id) THEN
                update_levels(chans, Tail(items), max_speech_db)
            ELSE IF ch_id \notin DOMAIN chans THEN
                [channels |-> chans, max_speech_db |-> max_speech_db, raised |-> TRUE]
            ELSE IF chans[ch_id].group = "speech" /\ ~is_number(db_val) THEN
                [channels |-> [chans EXCEPT ![ch_id].current_dbfs = db_val],
                 max_speech_db |-> max_speech_db, raised |-> TRUE]
            ELSE
                update_levels(
                    [chans EXCEPT ![ch_id].current_dbfs = db_val],
                    Tail(items),
                    IF chans[ch_id].group = "speech" /\ opens_gate(db_val)
                    THEN Max(max_speech_db, db_val)
                    ELSE max_speech_db)

\* brain_core.py:188-192  the address of a channel's command: f"{int(ch.id):02d}"
\* and the literal bus 11
address_of(ch_id) ==
    <<"ch", <<ch_id \div 10, ch_id % 10>>, "mix", 11, "level">>

\* variant of in_deadband: the band includes its edge
in_deadband_inclusive(current_dbfs) == Abs(-18 * DbUnit - current_dbfs) <= 2 * DbUnit

\* brain_core.py:155-158  the vocals deadband test
in_deadband(current_dbfs) == Abs(-18 * DbUnit - current_dbfs) < 2 * DbUnit

\* variant of override_expired: expiry at the end time itself
override_expired_at(t, ch) == t >= ch.override_end_time

\* brain_core.py:137  the override expiry test
override_expired(t, ch) == t > ch.override_end_time

\* brain_core.py:136-173  one iteration of the channel loop, up to the target:
\* the strip afterwards, whether a command follows, new_target_db, and whether
\* the iteration raised (line 155 on a stored level that is no number)
decide(ch, duck_amount, t) ==
    LET cleared == ch.is_overridden /\ override_expired(t, ch)
        ch1     == IF cleared THEN [ch EXCEPT !.is_overridden = FALSE] ELSE ch
    IN IF ch.is_overridden /\ ~cleared THEN
           [strip |-> ch, emit |-> FALSE, new_target_db |-> 0, raised |-> FALSE]
       ELSE IF ch.group = "drums" \/ ch.group = "band" THEN
           [strip |-> ch1, emit |-> TRUE, new_target_db |-> 0 + duck_amount,
            raised |-> FALSE]
       ELSE IF ch.group = "vocals" THEN
           IF ~is_number(ch.current_dbfs)
           THEN [strip |-> ch1, emit |-> FALSE, new_target_db |-> 0, raised |-> TRUE]
           ELSE IF in_deadband(ch.current_dbfs)
           THEN [strip |-> ch1, emit |-> FALSE, new_target_db |-> 0, raised |-> FALSE]
           ELSE [strip |-> ch1, emit |-> TRUE, new_target_db |-> 0, raised |-> FALSE]
       ELSE IF ch.group = "speech" THEN
           [strip |-> ch1, emit |-> TRUE, new_target_db |-> 0, raised |-> FALSE]
       ELSE
           [strip |-> ch1, emit |-> FALSE, new_target_db |-> 0, raised |-> FALSE]

\* variant of commands_for: a command is emitted only when the value differs
\* from the strip's target_fader_level
commands_for_changed(ch, new_target_db) ==
    IF db_to_fader(new_target_db) = ch.target_fader_level THEN <<>>
    ELSE << [address |-> address_of(ch.id), args |-> <<db_to_fader(new_target_db)>>] >>

\* brain_core.py:181-192  the commands one channel contributes to the batch
commands_for(ch, new_target_db) ==
    << [address |-> address_of(ch.id), args |-> <<db_to_fader(new_target_db)>>] >>

\* brain_core.py:128  duck_amount
duck_amount_of(speech) == IF speech THEN -4 * DbUnit ELSE 0

\* brain_core.py:126-197  run_mixing_logic: the channel loop in dict order and
\* the batch it publishes.  The batch is published after the loop (195-197), so
\* an iteration that raises leaves nothing published.
RECURSIVE mixing_loop(_, _, _, _, _)
mixing_loop(chans, order, duck_amount, t, cmds) ==
    IF order = <<>> THEN [channels |-> chans, commands |-> cmds, raised |-> FALSE]
    ELSE LET ch == chans[Head(order)]
             d  == decide(ch, duck_amount, t)
         IN IF d.raised THEN
                [channels |-> [chans EXCEPT ![Head(order)] = d.strip],
                 commands |-> <<>>, raised |-> TRUE]
            ELSE
                mixing_loop([chans EXCEPT ![Head(order)] = d.strip],
                            Tail(order), duck_amount, t,
                            IF d.emit THEN cmds \o commands_for(ch, d.new_target_db)
                            ELSE cmds)

run_mixing_logic(chans, order, speech, t) ==
    mixing_loop(chans, order, duck_amount_of(speech), t, <<>>)

\* variant of speech_floor: the maximum starts at 0.0
speech_floor_zero == 0 * DbUnit

\* brain_core.py:110  max_speech_db = -90.0
speech_floor == -90 * DbUnit

\* variant of gate_of: the maximum is taken over every speech channel of the
\* table, reported by this message or not
gate_of_table(chans, max_speech_db) ==
    \E c \in DOMAIN chans :
        chans[c].group = "speech" /\ chans[c].current_dbfs > -35 * DbUnit

\* brain_core.py:121  self.speech_active = (max_speech_db > -35.0), with the
\* table as the update loop left it
gate_of(chans, max_speech_db) == max_speech_db > -35 * DbUnit

\* brain_core.py:97-124  on_message for topic "x32/telemetry" with a decoded
\* payload: process_telemetry, and the except clause that swallows what it raises
process_telemetry(chans, order, speech, levelsMsg, t) ==
    LET u == update_levels(chans, Items(levelsMsg), speech_floor) IN
    IF u.raised THEN
        [channels |-> u.channels, speech_active |-> speech,
         commands |-> <<>>, raised |-> TRUE]
    ELSE LET gate == gate_of(u.channels, u.max_speech_db)
             r    == run_mixing_logic(u.channels, order, gate, t)
         IN [channels |-> r.channels, speech_active |-> gate,
             commands |-> r.commands, raised |-> r.raised]

---------------------------------------------------------------------------
\* The brain: BrainCore.__init__, then telemetry messages delivered one at a
\* time (the bus client's network loop calls on_message serially), the clock,
\* and manual overrides set from outside the decision pass.

EmptyMsg == [i \in {} |-> 0]

Step(kind, msg, overridden, raised) ==
    [kind |-> kind, msg |-> msg, overridden |-> overridden, raised |-> raised]

BrainNew ==
    /\ phase = "new"
    /\ config = [loaded |-> FALSE, cause |-> "none"]
    /\ channels = EmptyChannels
    /\ chanOrder = <<>>
    /\ TARGET_BUS_IDX = <<11, 12>>
    /\ speech_active = FALSE
    /\ now = 0
    /\ commands = <<>>
    /\ last = Step("none", EmptyMsg, {}, FALSE)

CurveIdle ==
    /\ curveOp = "none"
    /\ curveArg = 0
    /\ curveRes = 0

\* brain_core.py:59-72  BrainCore.__init__ on a configuration file
construct(file) ==
    /\ phase = "new"
    /\ LET r == load_config(file) IN
        /\ channels' = r.channels
        /\ chanOrder' = r.order
        /\ TARGET_BUS_IDX' = r.bus
        /\ config' = r.config
    /\ phase' = "running"
    /\ speech_active' = FALSE
    /\ commands' = <<>>
    /\ last' = Step("construct", EmptyMsg, {}, FALSE)
    /\ UNCHANGED <<now, curveVars, edgeVars>>

Construct(file) == construct(file) /\ UNCHANGED auxVars

\* brain_core.py:97-106  on_message with a telemetry payload
on_message(msg) ==
    /\ phase = "running"
    /\ \E r \in {process_telemetry(channels, chanOrder, speech_active, msg, now)} :
        /\ channels' = r.channels
        /\ speech_active' = r.speech_active
        /\ commands' = r.commands
        /\ last' = Step("telemetry", msg,
                        {c \in DOMAIN channels : channels[c].is_overridden},
                        r.raised)
    /\ UNCHANGED <<phase, config, chanOrder, TARGET_BUS_IDX, now, curveVars, edgeVars>>

OnTelemetry(msg) == on_message(msg) /\ UNCHANGED auxVars

\* time passes between messages
Tick ==
    /\ phase = "running"
    /\ now < MaxTime
    /\ now' = now + 1
    /\ commands' = <<>>
    /\ last' = Step("tick", EmptyMsg, {}, FALSE)
    /\ UNCHANGED <<phase, config, channels, chanOrder, TARGET_BUS_IDX,
                   speech_active, curveVars, edgeVars, auxVars>>

\* a manual override lock placed on a channel until a later time
SetOverride(ch_id, end_time) ==
    /\ phase = "running"
    /\ ch_id \in DOMAIN channels
    /\ ~channels[ch_id].is_overridden
    /\ end_time > now
    /\ channels' = [channels EXCEPT ![ch_id].is_overridden = TRUE,
                                    ![ch_id].override_end_time = end_time]
    /\ commands' = <<>>
    /\ last' = Step("override", EmptyMsg, {}, FALSE)
    /\ UNCHANGED <<phase, config, chanOrder, TARGET_BUS_IDX, speech_active, now,
                   curveVars, edgeVars, auxVars>>

---------------------------------------------------------------------------
\* The edge node: the audio callback (driver thread) and the telemetry loop
\* (worker thread), sharing self.levels.

\* edge_node.py:25
CHANNELS == 32

\* bytes of one int32 sample (np.int32)
SampleBytes == 4

\* int32 sample values the driver delivers, and 20*log10(rms + 1e-9) of a block
\* whose frames all hold that value on a channel, in tenths of a dB:
\* |x| / 2^31 is 0, 0.1 and 1.0
Samples == {0, 214748365, 2147483647}

\* edge_node.py:89-97  normalise, RMS over the frames, dBFS
rms_db(x) ==
    CASE x = 0           -> -180 * DbUnit
      [] x = 214748365   -> -20 * DbUnit
      [] x = 2147483647 -> 0

\* what the driver hands to the callback: in_data as its length in bytes and the
\* sample value it carries (the same in every frame), and frame_count
AudioBlocks ==
    [nbytes : {SampleBytes * CHANNELS, 2 * SampleBytes * CHANNELS,
               SampleBytes * (CHANNELS - 1), SampleBytes * CHANNELS - 2},
     frame_count : {1, 2},
     sample : Samples]

\* edge_node.py:54  self.levels = [0.0] * CHANNELS.  A list entry is <<b, v>>:
\* the value v and the number b of the audio block it was computed from
\* (0: the initial list).
NoBlock == [nbytes |-> 0, frame_count |-> 0, sample |-> 0]

InitialLevels == [i \in 0..(CHANNELS - 1) |-> <<0, 0>>]

\* edge_node.py:76  np.frombuffer(in_data, dtype=np.int32) raises ValueError when
\* the buffer is no whole number of samples
frombuffer_ok(blk) == blk.nbytes % SampleBytes = 0

\* edge_node.py:76  len(audio_data)
sample_count(blk) == blk.nbytes \div SampleBytes

\* variant of reshape_ok: any whole number of frames passes
reshape_ok_divisible(blk) == sample_count(blk) % CHANNELS = 0

\* edge_node.py:80-84  reshape((frame_count, CHANNELS)) succeeds
reshape_ok(blk) == sample_count(blk) = blk.frame_count * CHANNELS

\* edge_node.py:72-102  audio_callback: the list self.levels refers to afterwards
\* and what the call returned ("continue": (None, paContinue)) or that it raised
audio_callback(cur, blk, n) ==
    IF ~frombuffer_ok(blk) THEN [levels |-> cur, result |-> "raised"]
    ELSE IF ~reshape_ok(blk) THEN [levels |-> cur, result |-> "continue"]
    ELSE [levels |-> [i \in 0..(CHANNELS - 1) |-> <<n, rms_db(blk.sample)>>],
          result |-> "continue"]

EdgeIdle ==
    /\ levels = InitialLevels
    /\ blocks = 0
    /\ cbResult = "none"
    /\ lastBlock = NoBlock
    /\ tlPc = "check"
    /\ tlList = InitialLevels
    /\ tlIdx = 0
    /\ telemetry_data = EmptyMsg
    /\ published = EmptyMsg

\* the driver delivers a block; a callback that raised ends the stream
AudioCallback(blk) ==
    /\ blocks < MaxBlocks
    /\ cbResult # "raised"
    /\ \E r \in {audio_callback(levels, blk, blocks + 1)} :
        /\ levels' = r.levels
        /\ cbResult' = r.result
    /\ blocks' = blocks + 1
    /\ lastBlock' = blk
    /\ UNCHANGED <<tlPc, tlList, tlIdx, telemetry_data, published,
                   brainVars, curveVars, auxVars>>

\* edge_node.py:109  enumerate(self.levels): the attribute is read once
TlRead ==
    /\ tlPc = "check"
    /\ tlList' = levels
    /\ tlIdx' = 0
    /\ telemetry_data' = EmptyMsg
    /\ tlPc' = "build"
    /\ UNCHANGED <<levels, blocks, cbResult, lastBlock, published, brainVars, curveVars, auxVars>>

\* variant of snapshot_entry: self.levels indexed anew at every entry
snapshot_entry_live(i) == levels[i]

\* edge_node.py:109  the entry the comprehension reads at index i
snapshot_entry(i) == tlList[i]

\* edge_node.py:109  one iteration of the comprehension: key str(i+1)
TlBuild ==
    /\ tlPc = "build"
    /\ tlIdx < CHANNELS
    /\ telemetry_data' =
         [k \in DOMAIN telemetry_data \cup {tlIdx + 1} |->
             IF k = tlIdx + 1 THEN snapshot_entry(tlIdx) ELSE telemetry_data[k]]
    /\ tlIdx' = tlIdx + 1
    /\ UNCHANGED <<levels, blocks, cbResult, lastBlock, tlPc, tlList, published,
                   brainVars, curveVars, auxVars>>

\* edge_node.py:112-117  publish the message, sleep, next tick
TlPublish ==
    /\ tlPc = "build"
    /\ tlIdx = CHANNELS
    /\ published' = telemetry_data
    /\ tlPc' = "check"
    /\ UNCHANGED <<levels, blocks, cbResult, lastBlock, tlList, tlIdx, telemetry_data,
                   brainVars, curveVars, auxVars>>

---------------------------------------------------------------------------
\* The fader curve applied to drawn inputs

\* fader positions in steps of 1/400 and decibel values in steps of 0.5 dB
FaderGrid == { 40 * k : k \in 0..400 }
DbGrid    == { 5 * k : k \in -180..20 }

ApplyFaderToDb(f) ==
    /\ curveOp' = "fader_to_db"
    /\ curveArg' = f
    /\ curveRes' = fader_to_db(f)
    /\ UNCHANGED <<brainVars, edgeVars, auxVars>>

ApplyDbToFader(d) ==
    /\ curveOp' = "db_to_fader"
    /\ curveArg' = d
    /\ curveRes' = db_to_fader(d)
    /\ UNCHANGED <<brainVars, edgeVars, auxVars>>

ApplyFaderRoundTrip(f) ==
    /\ curveOp' = "fader_round_trip"
    /\ curveArg' = f
    /\ curveRes' = db_to_fader(fader_to_db(f))
    /\ UNCHANGED <<brainVars, edgeVars, auxVars>>

ApplyDbRoundTrip(d) ==
    /\ curveOp' = "db_round_trip"
    /\ curveArg' = d
    /\ curveRes' = fader_to_db(db_to_fader(d))
    /\ UNCHANGED <<brainVars, edgeVars, auxVars>>

---------------------------------------------------------------------------
\* The brain under malformed telemetry.  Beside the brain runs its shadow: the
\* same handler fed only the messages that are not malformed.

\* payloads that decode to a JSON object: each known id absent, a number, or a
\* value that is no number
TrackedLevels == {-349, -195, NonNumeric}
TrackedMessages == UNION { [S -> TrackedLevels] : S \in SUBSET ChannelIds }

\* payloads on which on_message raises before process_telemetry touches
\* anything: json.loads fails (line 100), or levels.items() fails on a decoded
\* value that is no object (line 112)
GarbageKinds == {"notjson", "nonobject"}

\* a message that carries a level that is no number for a channel of the table
malformed_for(chans, msg) ==
    \E c \in DOMAIN msg \cap DOMAIN chans : ~is_number(msg[c])

\* brain_core.py:59-72  BrainCore.__init__; the shadow starts from the same table
ConstructTracked(file) ==
    /\ construct(file)
    /\ shadow' = [channels |-> channels', commands |-> <<>>]
    /\ UNCHANGED <<prev, relayVars, timerVars, keepVars, lifeVars>>

\* brain_core.py:97-106  on_message with a payload that is a JSON object; the
\* shadow handles it too unless it is malformed
OnPayload(msg) ==
    /\ on_message(msg)
    /\ shadow' =
          IF malformed_for(channels, msg) THEN [shadow EXCEPT !.commands = <<>>]
          ELSE LET s == process_telemetry(shadow.channels, chanOrder, FALSE, msg, now)
               IN [channels |-> s.channels, commands |-> s.commands]
    /\ UNCHANGED <<prev, relayVars, timerVars, keepVars, lifeVars>>

\* brain_core.py:97-106  on_message with a payload that is no JSON object: the
\* exception is caught and logged, nothing else happens
OnGarbage(kind) ==
    /\ phase = "running"
    /\ commands' = <<>>
    /\ last' = Step(kind, EmptyMsg, {}, TRUE)
    /\ UNCHANGED <<phase, config, channels, chanOrder, TARGET_BUS_IDX,
                   speech_active, now, curveVars, edgeVars, auxVars>>

---------------------------------------------------------------------------
\* The command relay of the edge node: on_mqtt_message, called by the bus
\* client's network loop once per delivered message.

MaxRelay == 2       \* osc_client.send_message calls in a run

\* a key of the payload object: absent (payload.get gives None) or present
\* with a value; the empty string is the value <<>>
Absent == [present |-> FALSE, value |-> <<>>]
Present(v) == [present |-> TRUE, value |-> v]

RelayAddresses == {Absent, Present(<<>>), Present(address_of(1)), Present(address_of(2))}
RelayArgs      == {Absent, Present(<<(3 * FaderUnit) \div 4>>), Present(<<FaderUnit \div 2>>)}

\* what a message on "x32/commands" can hold: a JSON object, a JSON value that
\* is no object, or bytes that are no JSON
RelayPayloads ==
    [kind : {"object"}, address : RelayAddresses, args : RelayArgs]
    \cup [kind : {"notjson", "nonobject"}, address : {Absent}, args : {Absent}]

\* what osc_client.send_message can do
SendOutcomes == {"sent", "raises"}

\* edge_node.py:66  "if address:" : None and the empty string do not pass
truthy(field) == field.present /\ field.value # <<>>

\* edge_node.py:60-70  on_mqtt_message
OnMqttMessage(m, outcome) ==
    /\ relayMsg' = m
    /\ IF m.kind # "object" THEN
           /\ oscSent' = oscSent
           /\ relayLog' = "error"
       ELSE IF truthy(m.address) THEN
           /\ Len(oscSent) < MaxRelay
           /\ oscSent' = Append(oscSent, <<m.address, m.args>>)
           /\ relayLog' = IF outcome = "raises" THEN "error" ELSE "debug"
       ELSE
           /\ oscSent' = oscSent
           /\ relayLog' = "none"
    /\ UNCHANGED <<brainVars, curveVars, edgeVars, histVars, timerVars, keepVars, lifeVars>>

---------------------------------------------------------------------------
\* The brain with the telemetry pass before the last step kept beside it, to
\* compare a pass with the one just before it.

RepeatLevels == {-349, -195, -160}
RepeatMessages == UNION { [S -> RepeatLevels] : S \in SUBSET ChannelIds }

\* brain_core.py:97-106  on_message; prev records this pass, and whether it was
\* given the message of the pass right before it
OnTelemetryAgain(msg) ==
    /\ on_message(msg)
    /\ prev' = [valid |-> TRUE, msg |-> msg, commands |-> commands',
                repeated |-> last.kind = "telemetry" /\ last.msg = msg]
    /\ UNCHANGED <<shadow, relayVars, timerVars, keepVars, lifeVars>>

---------------------------------------------------------------------------
\* telemetry_loop against the clock.  Time is counted in units of 50 ms, the
\* length of the loop's sleep; it passes while the loop builds and publishes
\* and while it sleeps.

MaxClock == 12      \* the clock runs up to MaxClock

\* edge_node.py:26  TELEMETRY_INTERVAL = 0.2, in units of 50 ms
TELEMETRY_INTERVAL == 4

\* edge_node.py:117  time.sleep(0.05): the sleep lasts one unit, or longer when
\* the thread is scheduled late
SleepTimes == {1, 2}

\* the time building and publishing one message takes
PublishTimes == {0, 1}

\* what mqtt_client.publish can do
PublishOutcomes == {"returns", "raises"}

\* the last publish attempt: its result, last_telemetry_time before it, and
\* whether the attempt before it had failed
NoAttempt == [result |-> "none", before |-> 0, retried |-> FALSE]

\* variant of recorded_time: the time is recorded whatever publish did
recorded_time_always(outcome, cur, recorded) == cur

\* edge_node.py:111-115  try: publish; self.last_telemetry_time = current_time
\* except: log.  The assignment is skipped when publish raises.
recorded_time(outcome, cur, recorded) ==
    IF outcome = "returns" THEN cur ELSE recorded

\* edge_node.py:129,157-160  start(): self.running = True, the thread is started
TimerStart ==
    /\ tPc = "none"
    /\ running' = TRUE
    /\ tPc' = "top"
    /\ UNCHANGED <<tClock, current_time, last_telemetry_time, tOutcome, lifeRest,
                   brainVars, curveVars, edgeVars, histVars, relayVars, keepVars>>

\* edge_node.py:172  stop(): self.running = False
TimerStop ==
    /\ running
    /\ running' = FALSE
    /\ UNCHANGED <<timerVars, lifeRest,
                   brainVars, curveVars, edgeVars, histVars, relayVars, keepVars>>

\* edge_node.py:105-107  the loop test, the clock reading and the interval test
TimerTop ==
    /\ tPc = "top"
    /\ IF ~running THEN
           /\ tPc' = "done"
           /\ UNCHANGED current_time
       ELSE /\ current_time' = tClock
            /\ tPc' = IF tClock - last_telemetry_time >= TELEMETRY_INTERVAL
                      THEN "publish" ELSE "sleep"
    /\ UNCHANGED <<tClock, last_telemetry_time, tOutcome, lifeVars,
                   brainVars, curveVars, edgeVars, histVars, relayVars, keepVars>>

\* edge_node.py:109-115  the message is built and published
TimerPublish(outcome, d) ==
    /\ tPc = "publish"
    /\ tClock + d <= MaxClock
    /\ tClock' = tClock + d
    /\ last_telemetry_time' = recorded_time(outcome, current_time, last_telemetry_time)
    /\ tOutcome' = [result  |-> IF outcome = "returns" THEN "published" ELSE "failed",
                    before  |-> last_telemetry_time,
                    retried |-> tOutcome.result = "failed"]
    /\ tPc' = "sleep"
    /\ UNCHANGED <<current_time, lifeVars,
                   brainVars, curveVars, edgeVars, histVars, relayVars, keepVars>>

\* edge_node.py:117  time.sleep(0.05)
TimerSleep(d) ==
    /\ tPc = "sleep"
    /\ tClock + d <= MaxClock
    /\ tClock' = tClock + d
    /\ tPc' = "top"
    /\ UNCHANGED <<current_time, last_telemetry_time, tOutcome, lifeVars,
                   brainVars, curveVars, edgeVars, histVars, relayVars, keepVars>>

---------------------------------------------------------------------------
\* xremote_loop against the clock, in seconds.  Only the sleep takes time.

MaxAttempts == 4    \* /xremote send attempts in a run

\* edge_node.py:123  time.sleep(9)
KeepaliveSleep == 9

\* edge_node.py:129,157-161  start(): self.running = True, the thread is started
KeepStart ==
    /\ kPc = "none"
    /\ running' = TRUE
    /\ kPc' = "top"
    /\ UNCHANGED <<kClock, kAttempts, kOutcome, lifeRest,
                   brainVars, curveVars, edgeVars, histVars, relayVars, timerVars>>

\* edge_node.py:172  stop(): self.running = False
KeepStop ==
    /\ running
    /\ running' = FALSE
    /\ UNCHANGED <<keepVars, lifeRest,
                   brainVars, curveVars, edgeVars, histVars, relayVars, timerVars>>

\* edge_node.py:121  while self.running
KeepTop ==
    /\ kPc = "top"
    /\ kPc' = IF running THEN "send" ELSE "done"
    /\ UNCHANGED <<kClock, kAttempts, kOutcome, lifeVars,
                   brainVars, curveVars, edgeVars, histVars, relayVars, timerVars>>

\* edge_node.py:122-126  try: send_message("/xremote", []); then the sleep, or,
\* when the send raises, the except clause, which logs and falls back to the
\* loop test
KeepSend(outcome) ==
    /\ kPc = "send"
    /\ Len(kAttempts) < MaxAttempts
    /\ kAttempts' = Append(kAttempts, kClock)
    /\ kOutcome' = outcome
    /\ kPc' = IF outcome = "sent" THEN "sleep" ELSE "top"
    /\ UNCHANGED <<kClock, lifeVars,
                   brainVars, curveVars, edgeVars, histVars, relayVars, timerVars>>

\* edge_node.py:123  time.sleep(9) returns
KeepSleep ==
    /\ kPc = "sleep"
    /\ kClock' = kClock + KeepaliveSleep
    /\ kPc' = "top"
    /\ UNCHANGED <<kAttempts, kOutcome, lifeVars,
                   brainVars, curveVars, edgeVars, histVars, relayVars, timerVars>>

---------------------------------------------------------------------------
\* The life of the edge node: start() and stop() on the main thread, the two
\* worker threads start() creates, and the end of the process.  The loops are
\* taken without the clock here: a sleep is a step that returns.

\* where the main thread is, and why start() came to return
At(at, cause) == [at |-> at, cause |-> cause]

OutsideLife == <<brainVars, curveVars, edgeVars, histVars, relayVars, timerVars, keepVars>>

\* what mqtt_client.connect and the opening of the audio stream can do
ConnectOutcomes == {"connected", "raises"}
StreamOutcomes  == {"started", "open_raises", "start_stream_raises"}

\* variant of loop_continues: the flag is not consulted
loop_continues_always(flag) == TRUE

\* edge_node.py:105,121  while self.running
loop_continues(flag) == flag

\* edge_node.py:129  start(): self.running = True
StartBegin ==
    /\ mainPc.at = "constructed"
    /\ running' = TRUE
    /\ mainPc' = At("connect", "none")
    /\ UNCHANGED <<pa, mqtt, stream, telThread, keepThread, joined, OutsideLife>>

\* edge_node.py:132-137  connect and loop_start; on an exception start() logs
\* and returns
StartConnect(outcome) ==
    /\ mainPc.at = "connect"
    /\ IF outcome = "connected" THEN
           /\ mqtt' = "looping"
           /\ mainPc' = At("open", "none")
       ELSE /\ mqtt' = mqtt
            /\ mainPc' = At("returned", "connect_failed")
    /\ UNCHANGED <<running, pa, stream, telThread, keepThread, joined, OutsideLife>>

\* edge_node.py:140-154  the stream is opened and started; on an exception
\* start() logs, calls stop() and returns.  self.stream is assigned once
\* self.p.open has returned.
StartStream(outcome) ==
    /\ mainPc.at = "open"
    /\ stream' = CASE outcome = "started" -> "active"
                   [] outcome = "open_raises" -> "none"
                   [] outcome = "start_stream_raises" -> "open"
    /\ mainPc' = IF outcome = "started" THEN At("threads", "none")
                 ELSE At("stop_flag", "audio_failed")
    /\ UNCHANGED <<running, pa, mqtt, telThread, keepThread, joined, OutsideLife>>

\* edge_node.py:157-161  the two threads are created and started
StartThreads ==
    /\ mainPc.at = "threads"
    /\ telThread' = "top"
    /\ keepThread' = "top"
    /\ mainPc' = At("serve", "none")
    /\ UNCHANGED <<running, pa, mqtt, stream, joined, OutsideLife>>

\* edge_node.py:165-169  KeyboardInterrupt while the main thread waits: stop()
Interrupt ==
    /\ mainPc.at = "serve"
    /\ mainPc' = At("stop_flag", "interrupt")
    /\ UNCHANGED <<running, pa, mqtt, stream, telThread, keepThread, joined, OutsideLife>>

\* edge_node.py:166  the stream is found inactive: the wait loop ends and
\* start() returns without stop()
StreamInactive ==
    /\ mainPc.at = "serve"
    /\ stream' = "inactive"
    /\ mainPc' = At("returned", "stream_inactive")
    /\ UNCHANGED <<running, pa, mqtt, telThread, keepThread, joined, OutsideLife>>

\* edge_node.py:172  stop(): self.running = False
StopFlag ==
    /\ mainPc.at = "stop_flag"
    /\ running' = FALSE
    /\ mainPc' = At("stop_stream", mainPc.cause)
    /\ UNCHANGED <<pa, mqtt, stream, telThread, keepThread, joined, OutsideLife>>

\* edge_node.py:175-177  if self.stream: stop_stream(); close()
StopStream ==
    /\ mainPc.at = "stop_stream"
    /\ stream' = IF stream = "none" THEN "none" ELSE "closed"
    /\ mainPc' = At("stop_audio", mainPc.cause)
    /\ UNCHANGED <<running, pa, mqtt, telThread, keepThread, joined, OutsideLife>>

\* edge_node.py:179  self.p.terminate()
StopAudio ==
    /\ mainPc.at = "stop_audio"
    /\ pa' = "terminated"
    /\ mainPc' = At("stop_bus", mainPc.cause)
    /\ UNCHANGED <<running, mqtt, stream, telThread, keepThread, joined, OutsideLife>>

\* edge_node.py:180-181  loop_stop(); disconnect(); stop() and start() return
StopBus ==
    /\ mainPc.at = "stop_bus"
    /\ mqtt' = "disconnected"
    /\ mainPc' = At("returned", mainPc.cause)
    /\ UNCHANGED <<running, pa, stream, telThread, keepThread, joined, OutsideLife>>

\* edge_node.py:157-161,189-190  start() was the last statement of the program;
\* the threads are not daemons, so the interpreter joins them before it exits
ProcessExit ==
    /\ mainPc.at = "returned"
    /\ telThread \in {"none", "done"}
    /\ keepThread \in {"none", "done"}
    /\ joined' = TRUE
    /\ mainPc' = At("exited", mainPc.cause)
    /\ UNCHANGED <<running, pa, mqtt, stream, telThread, keepThread, OutsideLife>>

\* edge_node.py:104-117  telemetry_loop: the loop test, the body (which may
\* publish), the sleep
TelemetryThread ==
    /\ \/ /\ telThread = "top"
          /\ telThread' = IF loop_continues(running) THEN "body" ELSE "done"
       \/ /\ telThread = "body"
          /\ telThread' = "sleep"
       \/ /\ telThread = "sleep"
          /\ telThread' = "top"
    /\ UNCHANGED <<running, mainPc, pa, mqtt, stream, keepThread, joined, OutsideLife>>

\* edge_node.py:119-126  xremote_loop: the loop test, the send, and the sleep
\* that follows a send that returned
KeepaliveThread(outcome) ==
    /\ \/ /\ keepThread = "top"
          /\ keepThread' = IF loop_continues(running) THEN "send" ELSE "done"
       \/ /\ keepThread = "send"
          /\ keepThread' = IF outcome = "sent" THEN "sleep" ELSE "top"
       \/ /\ keepThread = "sleep"
          /\ keepThread' = "top"
    /\ UNCHANGED <<running, mainPc, pa, mqtt, stream, telThread, joined, OutsideLife>>

---------------------------------------------------------------------------
\* The state of the parts a specification leaves alone

NoPrev == [valid |-> FALSE, msg |-> EmptyMsg, commands |-> <<>>, repeated |-> FALSE]

HistIdle ==
    /\ shadow = [channels |-> EmptyChannels, commands |-> <<>>]
    /\ prev = NoPrev

\* edge_node.py:33-54  X32EdgeNode.__init__, seen from on_mqtt_message
RelayIdle ==
    /\ relayMsg = [kind |-> "none"]
    /\ oscSent = <<>>
    /\ relayLog = "none"

\* edge_node.py:53  self.last_telemetry_time = 0.  time.time() counts from 1970,
\* so the clock is at least one interval past that 0 when the loop starts.
TimerIdle ==
    /\ tClock = TELEMETRY_INTERVAL
    /\ tPc = "none"
    /\ current_time = 0
    /\ last_telemetry_time = 0
    /\ tOutcome = NoAttempt

\* edge_node.py:33-54  before the keepalive thread exists; the clock counts
\* from the start of the thread
KeepIdle ==
    /\ kClock = 0
    /\ kPc = "none"
    /\ kAttempts = <<>>
    /\ kOutcome = "none"

\* edge_node.py:33-54  X32EdgeNode.__init__: the audio subsystem handle is
\* acquired (line 40), the stream is None (49), running is False (50)
LifeIdle ==
    /\ running = FALSE
    /\ mainPc = At("constructed", "none")
    /\ pa = "initialized"
    /\ mqtt = "idle"
    /\ stream = "none"
    /\ telThread = "none"
    /\ keepThread = "none"
    /\ joined = FALSE

AuxIdle == HistIdle /\ RelayIdle /\ TimerIdle /\ KeepIdle /\ LifeIdle

---------------------------------------------------------------------------
\* Specifications

Init == BrainNew /\ CurveIdle /\ EdgeIdle /\ AuxIdle

Next ==
    \/ \E file \in ConfigFiles : Construct(file)
    \/ \E msg \in Messages : OnTelemetry(msg)
    \/ Tick
    \/ \E ch_id \in ChannelIds, end_time \in 1..MaxTime : SetOverride(ch_id, end_time)

Spec == Init /\ [][Next]_vars

NextEdge ==
    \/ \E blk \in AudioBlocks : AudioCallback(blk)
    \/ TlRead
    \/ TlBuild
    \/ TlPublish

SpecEdge == Init /\ [][NextEdge]_vars

NextCurve ==
    \/ \E f \in FaderGrid : ApplyFaderToDb(f)
    \/ \E d \in DbGrid : ApplyDbToFader(d)
    \/ \E f \in FaderGrid : ApplyFaderRoundTrip(f)
    \/ \E d \in DbGrid : ApplyDbRoundTrip(d)

SpecCurve == Init /\ [][NextCurve]_vars

NextMalformed ==
    \/ \E file \in ConfigFiles : ConstructTracked(file)
    \/ \E msg \in TrackedMessages : OnPayload(msg)
    \/ \E kind \in GarbageKinds : OnGarbage(kind)

SpecMalformed == Init /\ [][NextMalformed]_vars

NextRelay ==
    \E m \in RelayPayloads, outcome \in SendOutcomes : OnMqttMessage(m, outcome)

SpecRelay == Init /\ [][NextRelay]_vars

NextRepeat ==
    \/ \E file \in ConfigFiles : Construct(file)
    \/ \E msg \in RepeatMessages : OnTelemetryAgain(msg)
    \/ Tick
    \/ \E ch_id \in ChannelIds, end_time \in 1..MaxTime : SetOverride(ch_id, end_time)

SpecRepeat == Init /\ [][NextRepeat]_vars

NextTimer ==
    \/ TimerStart
    \/ TimerStop
    \/ TimerTop
    \/ \E outcome \in PublishOutcomes, d \in PublishTimes : TimerPublish(outcome, d)
    \/ \E d \in SleepTimes : TimerSleep(d)

SpecTimer == Init /\ [][NextTimer]_vars

NextKeep ==
    \/ KeepStart
    \/ KeepStop
    \/ KeepTop
    \/ \E outcome \in SendOutcomes : KeepSend(outcome)
    \/ KeepSleep

SpecKeep == Init /\ [][NextKeep]_vars

NextLife ==
    \/ StartBegin
    \/ \E outcome \in ConnectOutcomes : StartConnect(outcome)
    \/ \E outcome \in StreamOutcomes : StartStream(outcome)
    \/ StartThreads
    \/ Interrupt
    \/ StreamInactive
    \/ StopFlag
    \/ StopStream
    \/ StopAudio
    \/ StopBus
    \/ ProcessExit
    \/ TelemetryThread
    \/ \E outcome \in SendOutcomes : KeepaliveThread(outcome)

SpecLife == Init /\ [][NextLife]_vars

\* the two loops run on operating-system threads: each keeps being scheduled,
\* and its sleeps return
SpecLifeFair ==
    /\ Init /\ [][NextLife]_vars
    /\ WF_vars(TelemetryThread)
    /\ WF_vars(\E outcome \in SendOutcomes : KeepaliveThread(outcome))

---------------------------------------------------------------------------
\* Properties

\* the commands of the last handler that address channel c (any bus)
CommandsOf(c) ==
    { i \in 1..Len(commands) :
        commands[i].address[1] = "ch" /\ commands[i].address[2] = <<c \div 10, c % 10>> }

\* the last step was a telemetry message handled to the end
AfterTelemetry == last.kind = "telemetry" /\ ~last.raised

\* channels not under a manual override when the last message arrived
NotOverridden == DOMAIN channels \ last.overridden

\* C1: at each of the five breakpoints (0.0625,-60), (0.25,-30), (0.5,-10),
\* (0.75,0), (1.0,10) fader_to_db(fader) = db and db_to_fader(db) = fader, and
\* both round trips return their argument.
Breakpoints ==
    { <<FaderUnit \div 16, -60 * DbUnit>>, <<FaderUnit \div 4, -30 * DbUnit>>,
      <<FaderUnit \div 2, -10 * DbUnit>>, <<(3 * FaderUnit) \div 4, 0>>,
      <<FaderUnit, 10 * DbUnit>> }

C1_BreakpointsAgree ==
    \A bp \in Breakpoints :
        /\ (curveOp = "fader_to_db" /\ curveArg = bp[1]) => curveRes = bp[2]
        /\ (curveOp = "db_to_fader" /\ curveArg = bp[2]) => curveRes = bp[1]
        /\ (curveOp = "fader_round_trip" /\ curveArg = bp[1]) => curveRes = bp[1]
        /\ (curveOp = "db_round_trip" /\ curveArg = bp[2]) => curveRes = bp[2]

\* C2: after a telemetry message is handled, the ducking gate is active exactly
\* when some speech channel the message reports reads strictly above -35.0 dB;
\* a speech reading of exactly -35.0 does not open it, one of -34.9 does.
SpeechReadings ==
    { last.msg[c] : c \in { x \in DOMAIN last.msg \cap DOMAIN channels :
                              channels[x].group = "speech" } }

C2_GateStrictlyAbove ==
    AfterTelemetry =>
        /\ speech_active => \E v \in SpeechReadings : v > -350
        /\ (\E v \in SpeechReadings : v >= -349) => speech_active
        /\ (\A v \in SpeechReadings : v <= -350) => ~speech_active

C2_Witness ==
    /\ AfterTelemetry
    /\ SpeechReadings = {-350}
    /\ ~speech_active

\* C3 as stated: in a decision pass every non-overridden drums/band channel is
\* sent 0.575 when the gate is active and 0.75 when it is not, and every
\* non-overridden speech channel is sent 0.75.
SentTo(c, fader) ==
    /\ CommandsOf(c) # {}
    /\ \A i \in CommandsOf(c) : commands[i].args = <<fader>>

C3_DuckedValueAsStated ==
    AfterTelemetry =>
        \A c \in NotOverridden :
            /\ channels[c].group \in {"drums", "band"} =>
                  SentTo(c, IF speech_active THEN 9200 ELSE 12000)
            /\ channels[c].group = "speech" => SentTo(c, 12000)

\* C3 amended: the value sent to a non-overridden drums/band channel while the
\* gate is active is db_to_fader(-4.0) = (-4 + 30) / 40 = 0.65; it is 0.75 when
\* the gate is inactive, and a non-overridden speech channel is sent 0.75.
C3_DuckedValue ==
    AfterTelemetry =>
        \A c \in NotOverridden :
            /\ channels[c].group \in {"drums", "band"} =>
                  SentTo(c, IF speech_active THEN 10400 ELSE 12000)
            /\ channels[c].group = "speech" => SentTo(c, 12000)

\* channel 1 speech and channel 2 drums, speech above the gate: /ch/01/mix/11/level
\* with 0.75 and /ch/02/mix/11/level with 0.65
C3_Witness ==
    /\ AfterTelemetry
    /\ DOMAIN last.msg = {1, 2}
    /\ last.msg[1] > -350
    /\ DOMAIN channels = {1, 2}
    /\ channels[1].group = "speech"
    /\ channels[2].group = "drums"
    /\ commands = << [address |-> <<"ch", <<0, 1>>, "mix", 11, "level">>,
                      args |-> <<12000>>],
                     [address |-> <<"ch", <<0, 2>>, "mix", 11, "level">>,
                      args |-> <<10400>>] >>

\* what the group policy of a channel emits, read off the channel's state
PolicyEmits(c) ==
    \/ channels[c].group \in {"drums", "band", "speech"}
    \/ channels[c].group = "vocals" /\ Abs(-180 - channels[c].current_dbfs) >= 20

\* C4: a channel that is overridden when a decision pass visits it gets no
\* command and stays overridden while the time is not past override_end_time;
\* in the pass where the time is past it, the override is cleared and the
\* channel's group policy is evaluated in that same pass, emitting its command
\* if the policy emits one.
C4_OverrideLifecycle ==
    AfterTelemetry =>
        \A c \in last.overridden :
            IF now > channels[c].override_end_time
            THEN /\ ~channels[c].is_overridden
                 /\ (CommandsOf(c) # {}) = PolicyEmits(c)
            ELSE /\ channels[c].is_overridden
                 /\ CommandsOf(c) = {}

C4_Witness ==
    /\ AfterTelemetry
    /\ \E c \in last.overridden :
          /\ now > channels[c].override_end_time
          /\ ~channels[c].is_overridden
          /\ CommandsOf(c) # {}
    /\ \E c \in last.overridden :
          /\ now = channels[c].override_end_time
          /\ channels[c].is_overridden
          /\ CommandsOf(c) = {}

\* C5: a non-overridden vocals channel gets no command when
\* |-18.0 - current_dbfs| < 2.0, and otherwise (|error| exactly 2.0 included)
\* exactly one command carrying db_to_fader(0.0) = 0.75, whatever the error.
C5_VocalsDeadband ==
    AfterTelemetry =>
        \A c \in NotOverridden :
            channels[c].group = "vocals" =>
                IF Abs(-180 - channels[c].current_dbfs) < 20
                THEN CommandsOf(c) = {}
                ELSE /\ Cardinality(CommandsOf(c)) = 1
                     /\ \A i \in CommandsOf(c) : commands[i].args = <<12000>>

C5_Witness ==
    /\ AfterTelemetry
    /\ \E c \in NotOverridden :
          /\ channels[c].group = "vocals"
          /\ c \in DOMAIN last.msg
          /\ channels[c].current_dbfs = -160
          /\ Cardinality(CommandsOf(c)) = 1
          /\ \A i \in CommandsOf(c) : commands[i].args = <<12000>>

\* C6: a telemetry message that names ids absent from the channel table raises
\* nothing, adds no channel, and leaves the channel state, the gate and the
\* emitted commands exactly as the same message without those ids would.
WithoutUnknown(msg, chans) ==
    [c \in DOMAIN msg \cap DOMAIN chans |-> msg[c]]

C6_UnknownIdsIgnored ==
    [][ last'.kind = "telemetry" =>
          /\ ~last'.raised
          /\ DOMAIN channels' = DOMAIN channels
          /\ \E r \in { process_telemetry(channels, chanOrder, speech_active,
                                          WithoutUnknown(last'.msg, channels), now) } :
                /\ channels' = r.channels
                /\ speech_active' = r.speech_active
                /\ commands' = r.commands ]_vars

C6_Witness ==
    /\ AfterTelemetry
    /\ DOMAIN last.msg \ DOMAIN channels # {}
    /\ DOMAIN last.msg \cap DOMAIN channels # {}
    /\ speech_active
    /\ Len(commands) = 2

\* C7: every channel that gets a command gets one for each entry of the
\* configured target_bus list, and the bus of every emitted address is one of
\* the configured target_bus entries.
BusSet == { TARGET_BUS_IDX[i] : i \in 1..Len(TARGET_BUS_IDX) }

C7_OneCommandPerBus ==
    AfterTelemetry =>
        /\ \A c \in DOMAIN channels :
              CommandsOf(c) # {} =>
                  /\ Cardinality(CommandsOf(c)) = Len(TARGET_BUS_IDX)
                  /\ \A b \in BusSet :
                        \E i \in CommandsOf(c) : commands[i].address[4] = b
        /\ \A i \in 1..Len(commands) : commands[i].address[4] \in BusSet

\* C8: when loading the configuration fails (the file is missing or does not
\* parse), the channel table is empty and no telemetry message received
\* afterwards makes the brain publish a command.
LoadFailedToParse ==
    /\ phase = "running"
    /\ ~config.loaded
    /\ config.cause \in {"missing", "unparseable", "nonobject"}

C8_FailedLoadSilent ==
    LoadFailedToParse =>
        /\ channels = EmptyChannels
        /\ commands = <<>>

C8_Witness ==
    /\ LoadFailedToParse
    /\ config.cause = "unparseable"
    /\ AfterTelemetry
    /\ DOMAIN last.msg = MsgIds
    /\ commands = <<>>

\* the audio blocks the entries of a telemetry dict were computed from
BlocksIn(d) == { d[k][1] : k \in DOMAIN d }

\* C9: under any interleaving of the audio callback and the telemetry loop,
\* every published telemetry message (and the dict while it is built) holds
\* values of one complete snapshot: all 32 entries, keyed 1..32, come from the
\* same audio block or all from the initial list; it may be a stale one.
C9_NoTornSnapshot ==
    /\ Cardinality(BlocksIn(telemetry_data)) <= 1
    /\ published # EmptyMsg =>
          /\ DOMAIN published = 1..CHANNELS
          /\ \E b \in 0..blocks : \A k \in 1..CHANNELS : published[k][1] = b

\* the callback replaced the list while the loop was half way through it, and
\* an earlier message was published from a snapshot that is now stale
C9_Witness ==
    /\ tlPc = "build"
    /\ tlIdx > 0
    /\ tlIdx < CHANNELS
    /\ levels[0][1] # tlList[0][1]
    /\ published # EmptyMsg
    /\ published[1][1] # levels[0][1]

\* C10: a block whose sample count is not frame_count * 32 is dropped: the
\* snapshot stays as it was, nothing is raised, the callback returns
\* paContinue, and a well-formed block (before or after) replaces the snapshot
\* by the levels of that block.
WholeSamples(blk) == blk.nbytes % 4 = 0

Dropped ==
    /\ blocks > 0
    /\ WholeSamples(lastBlock)
    /\ lastBlock.nbytes \div 4 # lastBlock.frame_count * 32

C10_MalformedBlockDropped ==
    /\ [](Dropped /\ blocks < MaxBlocks =>
             ENABLED (\E blk \in AudioBlocks : AudioCallback(blk)))
    /\ [][ (blocks' # blocks /\ WholeSamples(lastBlock')) =>
             IF lastBlock'.nbytes \div 4 # lastBlock'.frame_count * 32
             THEN /\ levels' = levels
                  /\ cbResult' = "continue"
             ELSE /\ cbResult' = "continue"
                  /\ \A i \in 0..31 :
                        levels'[i] = <<blocks', rms_db(lastBlock'.sample)>> ]_vars

\* a malformed block was dropped after a well-formed one: the earlier snapshot
\* is still in place
C10_Witness ==
    /\ Dropped
    /\ cbResult = "continue"
    /\ blocks >= 2
    /\ levels[0][1] = blocks - 1

\* the largest element of a non-empty set of integers
MaxOf(S) == CHOOSE m \in S : \A x \in S : x <= m

\* the speech channels of the table
SpeechChannels == { c \in DOMAIN channels : channels[c].group = "speech" }

\* C13 as stated: after a telemetry message is handled the gate equals
\* (M > -35.0), M being the maximum current_dbfs over all speech channels of the
\* table, those the message did not report included (-90.0 when there is none).
C13_GateOverTable ==
    AfterTelemetry =>
        speech_active =
            (MaxOf({-900} \cup { channels[c].current_dbfs : c \in SpeechChannels }) > -350)

\* C13 amended: after a telemetry message is handled the gate equals (M > -35.0),
\* M being the maximum level this message reports for speech channels (-90.0
\* when it reports none); the stored level of a speech channel the message does
\* not report does not count.
C13_GateOverReported ==
    AfterTelemetry =>
        speech_active = (MaxOf({-900} \cup SpeechReadings) > -350)

\* speech channel 1 still holds a level above -35.0 from an earlier message, the
\* message reports only speech channel 2, at -35.0: the gate is inactive
C13_Witness ==
    /\ AfterTelemetry
    /\ SpeechReadings = {-350}
    /\ \E c \in SpeechChannels \ DOMAIN last.msg : channels[c].current_dbfs > -350
    /\ ~speech_active

\* C14: when no speech channel is configured, or the message reports none, the
\* gate is inactive after the message whatever earlier messages left, and in
\* that pass every non-overridden drums/band channel is sent 0.75.
C14_NoSpeechReported ==
    (AfterTelemetry /\ SpeechReadings = {}) =>
        /\ ~speech_active
        /\ \A c \in NotOverridden :
              channels[c].group \in {"drums", "band"} => SentTo(c, 12000)

\* a speech channel holds a level above -35.0 from an earlier message, this
\* message reports only the drums channel: gate inactive, drums sent 0.75
C14_Witness ==
    /\ AfterTelemetry
    /\ SpeechReadings = {}
    /\ \E c \in SpeechChannels : channels[c].current_dbfs > -350
    /\ \E c \in NotOverridden \cap DOMAIN last.msg :
          channels[c].group = "drums" /\ SentTo(c, 12000)
    /\ ~speech_active

\* C16: after a decision pass every channel a command was emitted for has
\* target_fader_level equal to the fader value sent, and target_fader_level
\* stays within [0.0, 1.0].
C16_TargetTracksSent ==
    AfterTelemetry =>
        \A c \in DOMAIN channels :
            /\ \A i \in CommandsOf(c) :
                  commands[i].args = <<channels[c].target_fader_level>>
            /\ channels[c].target_fader_level >= 0
            /\ channels[c].target_fader_level <= FaderUnit

\* the last message carried a level that is no number for a known channel
LastMalformed == malformed_for(channels, last.msg)

\* C11: a malformed telemetry message (a payload that is no object, or a level
\* that is no number for a known channel) is dropped without an error escaping
\* the handler, and every later well-formed message is handled to the end and
\* produces the commands it would have produced had the malformed message
\* never arrived.
C11_MalformedLeavesNoTrace ==
    (last.kind = "telemetry" /\ ~LastMalformed) =>
        /\ ~last.raised
        /\ commands = shadow.commands

\* a command message with an address and args
WellFormedCommand(m) ==
    m.kind = "object" /\ m.address.present /\ m.address.value # <<>> /\ m.args.present

\* a command message with no address
NoAddress(m) == m.kind = "object" /\ ~m.address.present

\* C12: the relay passes each well-formed command to the device client exactly
\* once, address and args unchanged; a command with no address is logged and
\* dropped, nothing being sent, whatever was delivered before.
C12_RelayVerbatim ==
    [][ (relayVars' # relayVars) =>
          /\ WellFormedCommand(relayMsg') =>
                oscSent' = Append(oscSent, <<relayMsg'.address, relayMsg'.args>>)
          /\ NoAddress(relayMsg') =>
                (oscSent' = oscSent /\ relayLog' # "none") ]_vars

\* the forwarding part of C12 alone, without the log record: it holds
C12_ForwardingPart ==
    [][ (relayVars' # relayVars) =>
          /\ WellFormedCommand(relayMsg') =>
                oscSent' = Append(oscSent, <<relayMsg'.address, relayMsg'.args>>)
          /\ NoAddress(relayMsg') => oscSent' = oscSent ]_vars

\* channels that were under an override not yet expired when the last pass ran
Locked ==
    { c \in last.overridden : now <= channels[c].override_end_time }

\* C15: there is no change detection.  In every pass the channels that get a
\* command are exactly those not under an unexpired override whose group is
\* drums, band or speech, or vocals with |-18.0 - current_dbfs| >= 2.0; other
\* groups never get one; and a telemetry message identical to the one handled
\* just before it produces the same commands again.
C15_NoChangeDetection ==
    /\ [](AfterTelemetry =>
            \A c \in DOMAIN channels :
                (CommandsOf(c) # {}) = (c \notin Locked /\ PolicyEmits(c)))
    /\ [][ (last.kind = "telemetry" /\ last'.kind = "telemetry" /\ last'.msg = last.msg)
             => commands' = commands ]_vars

\* the same message twice in a row: the second pass emits again, one channel
\* being addressed and another held back by its override in both
C15_Witness ==
    /\ AfterTelemetry
    /\ prev.repeated
    /\ DOMAIN last.msg # {}
    /\ commands # <<>>
    /\ commands = prev.commands
    /\ Locked # {}

\* C17: in the telemetry loop the recorded publish time advances only on a
\* successful publish, and then to the clock reading of that iteration; after
\* a failed publish the loop keeps running and attempts to publish again on its
\* next tick; the recorded times of two consecutive successful publishes are at
\* least the telemetry interval (200 ms) apart.
C17_PublishPacing ==
    [][ /\ (last_telemetry_time' # last_telemetry_time) =>
              /\ tPc = "publish"
              /\ tOutcome'.result = "published"
              /\ last_telemetry_time' = current_time
              /\ last_telemetry_time' > last_telemetry_time
        /\ (tPc = "publish" /\ tPc' = "sleep" /\ tOutcome'.result = "failed") =>
              last_telemetry_time' = last_telemetry_time
        /\ (tPc = "top" /\ tPc' # "top" /\ running /\ tOutcome.result = "failed") =>
              tPc' = "publish"
        /\ (tPc # "done" /\ tPc' = "done") => ~running
        /\ (tPc = "publish" /\ tPc' = "sleep" /\ tOutcome'.result = "published"
              /\ tOutcome'.before > 0) =>
              last_telemetry_time' - tOutcome'.before >= TELEMETRY_INTERVAL ]_vars

\* a publish one interval after a successful one failed, and the retry on the
\* next tick, 50 ms later, succeeded
C17_Witness ==
    /\ tOutcome.result = "published"
    /\ tOutcome.retried
    /\ tOutcome.before > 0
    /\ last_telemetry_time = tOutcome.before + TELEMETRY_INTERVAL + 1

\* C18: in the keepalive loop a failed send is never fatal (the loop ends only
\* once the running flag is cleared) and is retried at the next interval:
\* consecutive send attempts, the earlier one successful or failed, are one
\* keepalive interval (9 s) apart.
C18_KeepaliveSpacing ==
    /\ kPc = "done" => ~running
    /\ \A i \in 2..Len(kAttempts) : kAttempts[i] - kAttempts[i-1] = 9

\* start() came to return because the bus connect or the audio stream failed
StartupAborted ==
    mainPc.at = "returned" /\ mainPc.cause \in {"connect_failed", "audio_failed"}

\* C19: when the startup of the edge node aborts, every resource acquired so
\* far (the audio subsystem handle, the bus connection and its network loop,
\* the stream) is released, the running flag is false, and neither loop was
\* started.
C19_AbortReleasesAll ==
    StartupAborted =>
        /\ pa = "terminated"
        /\ mqtt \in {"idle", "disconnected"}
        /\ stream \in {"none", "closed"}
        /\ ~running
        /\ telThread = "none"
        /\ keepThread = "none"

\* shutdown has cleared the running flag
ShutdownBegun == mainPc.cause = "interrupt" /\ ~running

\* C20: once shutdown has cleared the running flag, each loop that wakes finds
\* it cleared and ends without another publish or send, both loops do end, and
\* the audio stream has been stopped and closed by the time the worker threads
\* are joined.
C20_LoopsWindDown ==
    /\ [][ /\ (telThread = "top" /\ ~running) => telThread' \in {"top", "done"}
           /\ (keepThread = "top" /\ ~running) => keepThread' \in {"top", "done"}
           /\ telThread = "done" => telThread' = "done"
           /\ keepThread = "done" => keepThread' = "done" ]_vars
    /\ [](joined /\ mainPc.cause = "interrupt" => stream = "closed")
    /\ ShutdownBegun ~> (telThread = "done" /\ keepThread = "done")

\* the node was interrupted while serving: both loops have ended, the stream
\* is closed, and the threads have been joined
C20_Witness ==
    /\ mainPc = At("exited", "interrupt")
    /\ joined
    /\ stream = "closed"
    /\ telThread = "done"
    /\ keepThread = "done"

=============================================================================
